---- MODULE Spec2Model ----
(***************************************************************************)
(* ts-dns: the per-request query handler (handler.ServeDNS), the upstream  *)
(* query (queryDns) and the domain router (getGroupName).                  *)
(*                                                                         *)
(* Strings the code inspects character by character (domain names, suffix  *)
(* table keys, the loop marker) are sequences of one-character strings, so *)
(* strings.HasSuffix and strings.Count are computed, not assumed.          *)
(***************************************************************************)
EXTENDS Integers, Sequences, FiniteSets, TLC

VARIABLES
    pc,          \* position of the handler: idle, hosts, cache, route, dispatch, ipset, defer, done, exit, panic
    req,         \* the request being served: [name, qtype, extra]
    r,           \* ServeDNS's local `r *dns.Msg` (Nil when nil)
    idx,         \* loop index of the hosts loop / the dispatch loop
    groupName,   \* routed group name
    reason,      \* routing reason
    panicking,   \* a nil dereference is unwinding the handler
    log,         \* observable events of the current ServeDNS call, in order
    cache,       \* the DNS cache: key -> entry
    served,      \* number of ServeDNS calls started
    prev,        \* summary of the previous ServeDNS call
    results      \* router: domain -> set of results getGroupName has returned

VARIABLES
    toml,        \* initConfig: the decoded configuration file (tomlConfig.GroupMap)
    config       \* initConfig: its progress and the config.Config it built

configVars == <<toml, config>>

VARIABLES
    tasks,       \* outbound: each request task's position in the Call it is executing
    transport,   \* outbound: httpClient.Transport, "" while it is unset (direct)
    clog,        \* outbound: the events of all Calls, in order
    ncalls       \* outbound: number of Calls begun

callerVars == <<tasks, transport, clog, ncalls>>

extVars == <<configVars, callerVars>>

vars == <<pc, req, r, idx, groupName, reason, panicking, log, cache, served, prev, results,
          extVars>>

handlerVars == <<pc, req, r, idx, groupName, reason, panicking, log, cache, served, prev, results>>

-----------------------------------------------------------------------------
(* Bounds *)

MaxRequests == 2

\* most entries (DNS, DoT and DoH together) in the "clean" group of a configuration file
MaxEntries == 2

\* most Calls made on Callers
MaxCalls == 2

-----------------------------------------------------------------------------
(* Go string helpers *)

\* strings.HasSuffix(s, suffix)
HasSuffix(s, suffix) ==
    /\ Len(s) >= Len(suffix)
    /\ SubSeq(s, Len(s) - Len(suffix) + 1, Len(s)) = suffix

\* strings.Count(s, substr): non-overlapping occurrences, scanning from the left
RECURSIVE CountFrom(_, _, _)
CountFrom(s, substr, i) ==
    IF i + Len(substr) - 1 > Len(s) THEN 0
    ELSE IF SubSeq(s, i, i + Len(substr) - 1) = substr
         THEN 1 + CountFrom(s, substr, i + Len(substr))
         ELSE CountFrom(s, substr, i + 1)

Count(s, substr) == IF substr = <<>> THEN Len(s) + 1 ELSE CountFrom(s, substr, 1)

\* question.Name[:len(question.Name)-1]
StripLast(s) == SubSeq(s, 1, Len(s) - 1)

-----------------------------------------------------------------------------
(* Messages *)

\* a nil *dns.Msg
Nil == [from |-> "nil", answer |-> <<>>]

RR(type, data) == [type |-> type, data |-> data]

\* answer sections an upstream may return
AnswerLists ==
    { <<RR("A", "1.1.1.1")>>,
      <<RR("CNAME", "x."), RR("A", "2.2.2.2"), RR("AAAA", "::1"), RR("A", "3.3.3.3")>> }

\* a response produced by upstream `server`
Responses(server) == { [from |-> server, answer |-> a] : a \in AnswerLists }

\* one event of the handler's log
Ev(ev, arg, n, msg) == [ev |-> ev, arg |-> arg, n |-> n, msg |-> msg]

-----------------------------------------------------------------------------
(* Configuration and requests *)

N_abc  == <<"a", ".", "b", ".", "c", ".">>
N_d    == <<"d", ".">>
N_f    == <<"f", ".">>
N_h    == <<"h", ".">>
N_g    == <<"g", ".">>
N_k    == <<"k", ".">>
N_ax   == <<"a", ".", "x", ".">>
N_ae   == <<"a", ".", "e", ".">>
N_one  == <<"a", ".", "n", "e", "-", "b", ".">>
N_two  == <<"a", ".", "n", "e", "-", "b", ".", "n", "e", "-", "c", ".">>

Names == {N_abc, N_d, N_f, N_h, N_g, N_k, N_ax, N_ae, N_one, N_two}

\* the loop marker counted by ServeDNS
Marker == <<".", "n", "e", "-">>

\* the suffix rules in the order the configuration lists them
SuffixTable ==
    << [suffix |-> <<".", "b", ".", "c", ".">>, group |-> "dirty"],
       [suffix |-> <<".", "c", ".">>,           group |-> "clean"],
       [suffix |-> <<".", "x", ".">>,           group |-> "ghost"],
       [suffix |-> <<".", "e", ".">>,           group |-> "empty"] >>

\* suffixMap: the Go map built from the rules (suffix -> group)
suffixMap ==
    [s \in {SuffixTable[i].suffix : i \in 1..Len(SuffixTable)} |->
        (CHOOSE e \in {SuffixTable[i] : i \in 1..Len(SuffixTable)} : e.suffix = s).group]

\* config.Groups: group name -> group
Groups ==
    [g \in {"clean", "dirty", "empty"} |->
        CASE g = "clean" -> [DNS |-> <<"s1", "s2">>, Dialer |-> FALSE, IPSet |-> FALSE, IPSetTTL |-> 0]
          [] g = "dirty" -> [DNS |-> <<"s3">>,       Dialer |-> TRUE,  IPSet |-> TRUE,  IPSetTTL |-> 300]
          [] g = "empty" -> [DNS |-> <<>>,           Dialer |-> FALSE, IPSet |-> FALSE, IPSetTTL |-> 0]]

\* the requests the server may receive
Requests ==
    { [name |-> N_abc, qtype |-> "A",    extra |-> "none"],
      [name |-> N_d,   qtype |-> "A",    extra |-> "none"],
      [name |-> N_d,   qtype |-> "A",    extra |-> "edns"],
      [name |-> N_f,   qtype |-> "AAAA", extra |-> "none"],
      [name |-> N_h,   qtype |-> "A",    extra |-> "none"],
      [name |-> N_h,   qtype |-> "MX",   extra |-> "none"],
      [name |-> N_g,   qtype |-> "AAAA", extra |-> "none"],
      [name |-> N_k,   qtype |-> "A",    extra |-> "none"],
      [name |-> N_ax,  qtype |-> "A",    extra |-> "none"],
      [name |-> N_ae,  qtype |-> "A",    extra |-> "none"],
      [name |-> N_one, qtype |-> "A",    extra |-> "none"],
      [name |-> N_two, qtype |-> "A",    extra |-> "none"] }

NoReq == [name |-> <<>>, qtype |-> "", extra |-> ""]

-----------------------------------------------------------------------------
(* External collaborators *)

\* config.GFWChecker.IsBlocked(domain) -> (blocked, ok)
IsBlocked(domain) ==
    CASE domain = N_d -> [blocked |-> TRUE,  ok |-> TRUE]
      [] domain = N_f -> [blocked |-> FALSE, ok |-> TRUE]
      [] OTHER        -> [blocked |-> FALSE, ok |-> FALSE]

\* hostsReaders: each reader is its table of (hostname, qtype) -> record text
hostsReaders ==
    << { [name |-> StripLast(N_h), qtype |-> "A",    record |-> "h 0 IN A 10.0.0.1"] },
       { [name |-> StripLast(N_h), qtype |-> "A",    record |-> "h 0 IN A 10.0.0.2"],
         [name |-> N_k,            qtype |-> "A",    record |-> "k. 0 IN A 10.0.0.3"],
         [name |-> N_g,            qtype |-> "AAAA", record |-> "g. 0 IN AAAA zz"] } >>

\* reader.GenRecord(hostname, qtype): the record text, "" when there is none
GenRecord(reader, hostname, qtype) ==
    LET hit == {e \in reader : e.name = hostname /\ e.qtype = qtype}
    IN  IF hit = {} THEN "" ELSE (CHOOSE e \in hit : TRUE).record

\* dns.NewRR(record): the parsed resource record, or an error
NewRR(record) ==
    CASE record = "h 0 IN A 10.0.0.1"  -> [err |-> FALSE, rr |-> RR("A", "10.0.0.1")]
      [] record = "h 0 IN A 10.0.0.2"  -> [err |-> FALSE, rr |-> RR("A", "10.0.0.2")]
      [] record = "k. 0 IN A 10.0.0.3" -> [err |-> FALSE, rr |-> RR("A", "10.0.0.3")]
      [] OTHER                         -> [err |-> TRUE,  rr |-> RR("", "")]

\* the cache key: (question, extra records)
CacheKey(request) == request

Absent == [from |-> "absent", answer |-> <<>>]

\* getDNSCache(question, extra): the cached response, nil when there is none
getDNSCache(c, key) == IF c[key] = Absent THEN Nil ELSE c[key]

\* setDNSCache(question, extra, r): record an entry for the key
setDNSCache(c, key, msg) == [c EXCEPT ![key] = msg]

-----------------------------------------------------------------------------
(* Domain router *)

Suffixes == DOMAIN suffixMap

\* the orders in which `for suffix, group := range suffixMap` may visit the map
IterationOrders ==
    { o \in [1..Cardinality(Suffixes) -> Suffixes] :
        \A i, j \in 1..Cardinality(Suffixes) : o[i] = o[j] => i = j }

\* index of the first suffix of `order`, from position i on, that the domain ends with (0: none)
RECURSIVE FirstMatch(_, _, _)
FirstMatch(domain, order, i) ==
    IF i > Len(order) THEN 0
    ELSE IF HasSuffix(domain, order[i]) THEN i
         ELSE FirstMatch(domain, order, i + 1)

Reason(kind, suffix) == [kind |-> kind, suffix |-> suffix]

Routing(group, why, calls) == [group |-> group, reason |-> why, isBlockedCalls |-> calls]

classify_noDirty(domain) ==
    LET c == IsBlocked(domain)
    IN  IF c.ok THEN Routing("clean", Reason("GFWList", <<>>), 1)
        ELSE Routing("clean", Reason("default", <<>>), 1)

\* the classifier stage of getGroupName
classify(domain) ==
    LET c == IsBlocked(domain)
    IN  IF c.ok
        THEN IF c.blocked THEN Routing("dirty", Reason("GFWList", <<>>), 1)
                          ELSE Routing("clean", Reason("GFWList", <<>>), 1)
        ELSE Routing("clean", Reason("default", <<>>), 1)

\* getGroupName(domain), the map being visited in `order`
getGroupName(domain, order) ==
    LET i == FirstMatch(domain, order, 1)
    IN  IF i > 0
        THEN Routing(suffixMap[order[i]], Reason("suffix", order[i]), 0)
        ELSE classify(domain)

\* one call of getGroupName
RouterCall(domain) ==
    /\ \E order \in IterationOrders :
          results' = [results EXCEPT ![domain] = @ \cup {getGroupName(domain, order)}]
    /\ UNCHANGED <<pc, req, r, idx, groupName, reason, panicking, log, cache, served, prev, extVars>>

-----------------------------------------------------------------------------
(* Query handler *)

HasEv(lg, ev) == \E i \in 1..Len(lg) : lg[i].ev = ev

\* the reply a call wrote to the requester (Nil: none)
Reply(lg) ==
    IF HasEv(lg, "write")
    THEN lg[CHOOSE i \in 1..Len(lg) : lg[i].ev = "write"].msg
    ELSE Nil

IsRecursive_atLeastOne(name) == Count(name, Marker) >= 1

\* strings.Count(question.Name, ".ne-") > 1
IsRecursive(name) == Count(name, Marker) > 1

IsAddrType_any(qtype) == TRUE

\* question.Qtype == dns.TypeA || question.Qtype == dns.TypeAAAA
IsAddrType(qtype) == qtype = "A" \/ qtype = "AAAA"

\* ServeDNS is entered with a request: the loop guard, then the choice of the first stage
Serve(request) ==
    /\ pc \in {"idle", "done"}
    /\ served < MaxRequests
    /\ served' = served + 1
    /\ prev' = [req |-> req, routed |-> HasEv(log, "route"),
                called |-> HasEv(log, "queryDns"), reply |-> Reply(log)]
    /\ req' = request
    /\ r' = Nil
    /\ idx' = 1
    /\ groupName' = ""
    /\ reason' = Reason("", <<>>)
    /\ IF IsRecursive(request.name)
       THEN /\ log' = <<Ev("fatal", "", 0, Nil)>>
            /\ pc' = "exit"
       ELSE /\ log' = <<>>
            /\ pc' = IF IsAddrType(request.qtype) /\ Len(hostsReaders) > 0
                     THEN "hosts" ELSE "cache"
    /\ UNCHANGED <<panicking, cache, results, extVars>>

\* the two GenRecord calls on one reader: the stripped name, then the name itself on a miss
HostsLookup(reader, name, qtype) ==
    LET first == GenRecord(reader, StripLast(name), qtype)
    IN  IF first = ""
        THEN [record |-> GenRecord(reader, name, qtype), tries |-> <<"stripped", "full">>]
        ELSE [record |-> first, tries |-> <<"stripped">>]

\* one iteration of the hosts loop
HostsStep ==
    /\ pc = "hosts"
    /\ LET look == HostsLookup(hostsReaders[idx], req.name, req.qtype)
           seen == [i \in 1..Len(look.tries) |-> Ev("genRecord", look.tries[i], idx, Nil)]
       IN  IF look.record # ""
           THEN LET parsed == NewRR(look.record)
                IN  /\ r' = IF parsed.err THEN Nil
                            ELSE [from |-> "hosts", answer |-> <<parsed.rr>>]
                    /\ log' = log \o seen \o <<Ev("newRR", look.record, idx, Nil)>>
                    /\ pc' = "defer"
                    /\ idx' = idx
           ELSE /\ r' = r
                /\ log' = log \o seen
                /\ IF idx < Len(hostsReaders)
                   THEN idx' = idx + 1 /\ pc' = "hosts"
                   ELSE idx' = 1 /\ pc' = "cache"
    /\ UNCHANGED <<req, groupName, reason, panicking, cache, served, prev, results, extVars>>

CacheHit_never(msg) == FALSE

\* r = getDNSCache(...); r != nil
CacheHit(msg) == msg # Nil

\* the cache lookup
CacheLookup ==
    /\ pc = "cache"
    /\ LET got == getDNSCache(cache, CacheKey(req))
       IN  /\ r' = got
           /\ log' = Append(log, Ev("cacheGet", "", 0, got))
           /\ pc' = IF CacheHit(got) THEN "defer" ELSE "route"
    /\ UNCHANGED <<req, idx, groupName, reason, panicking, cache, served, prev, results, extVars>>

\* getGroupName is called and the group is looked up in config.Groups
Route ==
    /\ pc = "route"
    /\ \E order \in IterationOrders :
          LET res == getGroupName(req.name, order)
              asked == [i \in 1..res.isBlockedCalls |-> Ev("isBlocked", "", 0, Nil)]
          IN  /\ groupName' = res.group
              /\ reason' = res.reason
              /\ log' = (log \o asked) \o <<Ev("route", res.group, 0, Nil)>>
              /\ pc' = IF res.group \in DOMAIN Groups
                       THEN IF Len(Groups[res.group].DNS) > 0 THEN "dispatch" ELSE "ipset"
                       ELSE "defer"
    /\ idx' = 1
    /\ UNCHANGED <<req, r, panicking, cache, served, prev, results, extVars>>

\* what one upstream exchange may do: the response, the error, and the I/O performed
QueryOutcomes(server, dialer) ==
    LET msgs == Responses(server) \cup {Nil}
    IN  IF dialer
        THEN { [r |-> Nil, err |-> TRUE, io |-> <<"dialFail">>],
               [r |-> Nil, err |-> TRUE, io |-> <<"dial", "connWriteFail">>] }
             \cup { [r |-> m, err |-> e, io |-> <<"dial", "connWrite", "connRead">>] :
                      m \in msgs, e \in BOOLEAN }
        ELSE { [r |-> m, err |-> e, io |-> <<"exchange">>] : m \in msgs, e \in BOOLEAN }

CacheAfterQuery_noWrite(c, key, msg) == c

\* queryDns's deferred setDNSCache(question, extra, r)
CacheAfterQuery(c, key, msg) == setDNSCache(c, key, msg)

\* queryDns(question, server, extra, dialer) with outcome `out`: the events it causes
queryDnsEvents(server, i, out) ==
    <<Ev("queryDns", server, i, Nil)>>
    \o [k \in 1..Len(out.io) |-> Ev(out.io[k], server, i, Nil)]
    \o <<Ev("cacheSet", "", i, out.r)>>
    \o (IF out.io[1] = "dial" THEN <<Ev("connClose", server, i, Nil)>> ELSE <<>>)
    \o <<Ev("queryDnsReturn", IF out.err THEN "err" ELSE "ok", i, out.r)>>

BreakOnResponse_never(msg) == FALSE

\* if r != nil { break }
BreakOnResponse(msg) == msg # Nil

\* one iteration of the loop over group.DNS
Dispatch ==
    /\ pc = "dispatch"
    /\ LET group == Groups[groupName]
           server == group.DNS[idx]
       IN  \E out \in QueryOutcomes(server, group.Dialer) :
              /\ r' = out.r
              /\ cache' = CacheAfterQuery(cache, CacheKey(req), out.r)
              /\ log' = log \o queryDnsEvents(server, idx, out)
              /\ IF BreakOnResponse(out.r) \/ idx = Len(group.DNS)
                 THEN idx' = idx /\ pc' = "ipset"
                 ELSE idx' = idx + 1 /\ pc' = "dispatch"
    /\ UNCHANGED <<req, groupName, reason, panicking, served, prev, results, extVars>>

IsARecord_any(rr) == TRUE

\* case *dns.A
IsARecord(rr) == rr.type = "A"

\* the group.IPSet.Add(ip, group.IPSetTTL) calls of the loop over r.Answer,
\* `failed` being the positions whose Add returns an error
RECURSIVE ipsetEvents(_, _, _, _)
ipsetEvents(answer, i, failed, ttl) ==
    IF i > Len(answer) THEN <<>>
    ELSE (IF IsARecord(answer[i])
          THEN <<Ev("ipsetAdd", answer[i].data, ttl, Nil)>>
               \o (IF i \in failed THEN <<Ev("ipsetAddError", answer[i].data, ttl, Nil)>> ELSE <<>>)
          ELSE <<>>)
         \o ipsetEvents(answer, i + 1, failed, ttl)

\* the address-set write-back; r.Answer with r nil is a nil dereference
IPSetWrite ==
    /\ pc = "ipset"
    /\ IF ~Groups[groupName].IPSet
       THEN /\ log' = log
            /\ panicking' = panicking
       ELSE IF r = Nil
       THEN /\ log' = Append(log, Ev("panic", "nil dereference", 0, Nil))
            /\ panicking' = TRUE
       ELSE /\ \E failed \in SUBSET {i \in 1..Len(r.answer) : IsARecord(r.answer[i])} :
                  log' = log \o ipsetEvents(r.answer, 1, failed, Groups[groupName].IPSetTTL)
            /\ panicking' = panicking
    /\ pc' = "defer"
    /\ UNCHANGED <<req, r, idx, groupName, reason, cache, served, prev, results, extVars>>

deferredEvents_closeOnReply(msg) ==
    IF msg # Nil THEN <<Ev("write", "", 0, msg), Ev("close", "", 0, Nil)>> ELSE <<>>

\* ServeDNS's deferred function: write the reply when there is one, close the writer
deferredEvents(msg) ==
    IF msg # Nil
    THEN <<Ev("write", "", 0, msg), Ev("close", "", 0, Nil)>>
    ELSE <<Ev("close", "", 0, Nil)>>

\* ServeDNS returns (or unwinds): the deferred function runs
Deferred ==
    /\ pc = "defer"
    /\ log' = log \o deferredEvents(r)
    /\ pc' = IF panicking THEN "panic" ELSE "done"
    /\ UNCHANGED <<req, r, idx, groupName, reason, panicking, cache, served, prev, results, extVars>>

-----------------------------------------------------------------------------
(* Startup: initConfig *)

\* strings.Contains(s, substr)
Contains(s, substr) ==
    \E i \in 1..(Len(s) - Len(substr) + 1) : SubSeq(s, i, i + Len(substr) - 1) = substr

\* strings.Split(s, sep) for a one-character separator
RECURSIVE Split(_, _)
Split(s, sep) ==
    IF \E i \in 1..Len(s) : s[i] = sep
    THEN LET i == CHOOSE k \in 1..Len(s) : s[k] = sep /\ \A j \in 1..(k - 1) : s[j] # sep
         IN  <<SubSeq(s, 1, i - 1)>> \o Split(SubSeq(s, i + 1, Len(s)), sep)
    ELSE <<s>>

S_tcp      == <<"/", "t", "c", "p">>
S_port53   == <<":", "5", "3">>
S_port853  == <<":", "8", "5", "3">>
S_https    == <<"h", "t", "t", "p", "s", ":", "/", "/">>
S_dnsquery == <<"/", "d", "n", "s", "-", "q", "u", "e", "r", "y">>

\* configured plain-DNS addresses
DNS_v4      == <<"8", ".", "8", ".", "8", ".", "8">>
DNS_v4tcp   == <<"8", ".", "8", ".", "8", ".", "8", "/", "t", "c", "p">>
DNS_v4port  == <<"1", ".", "1", ".", "1", ".", "1", ":", "5", "3", "5", "3">>
DNS_onlytcp == <<"/", "t", "c", "p">>
DNS_empty   == <<>>
DNS_v6      == <<":", ":", "1">>

DNSAddrs == {DNS_v4, DNS_v4tcp, DNS_v4port, DNS_onlytcp, DNS_empty, DNS_v6}

\* configured DoT entries
DoT_plain    == <<"1", ".", "1", ".", "1", ".", "1", "@", "o", "n", "e">>
DoT_port     == <<"1", ".", "1", ".", "1", ".", "1", ":", "8", "5", "3", "@", "o", "n", "e">>
DoT_noaddr   == <<"@", "o", "n", "e">>
DoT_noname   == <<"1", ".", "1", ".", "1", ".", "1", "@">>
DoT_noat     == <<"1", ".", "1", ".", "1", ".", "1">>
DoT_twoat    == <<"1", ".", "1", ".", "1", ".", "1", "@", "o", "n", "e", "@", "t", "w", "o">>

DoTAddrs == {DoT_plain, DoT_port, DoT_noaddr, DoT_noname, DoT_noat, DoT_twoat}

\* configured DoH addresses
DoH_good   == <<"h", "t", "t", "p", "s", ":", "/", "/", "d", "/", "d", "n", "s", "-", "q", "u", "e", "r", "y">>
DoH_good2  == <<"h", "t", "t", "p", "s", ":", "/", "/", "e", "/", "x", "/", "d", "n", "s", "-", "q", "u", "e", "r", "y">>
DoH_http   == <<"h", "t", "t", "p", ":", "/", "/", "d", "/", "d", "n", "s", "-", "q", "u", "e", "r", "y">>
DoH_nohost == <<"h", "t", "t", "p", "s", ":", "/", "/", "/", "d", "n", "s", "-", "q", "u", "e", "r", "y">>
DoH_tail   == <<"h", "t", "t", "p", "s", ":", "/", "/", "d", "/", "d", "n", "s", "-", "q", "u", "e", "r", "y", "/">>

DoHAddrs == {DoH_good, DoH_good2, DoH_http, DoH_nohost, DoH_tail}

\* an outbound.Caller built by initConfig
Caller(kind, address, serverName, dialer) ==
    [kind |-> kind, address |-> address, serverName |-> serverName, dialer |-> dialer]

\* the Callers one entry of group.DNS adds
plainCallers(addr, dialer) ==
    LET useTcp == HasSuffix(addr, S_tcp)
        a == IF useTcp THEN SubSeq(addr, 1, Len(addr) - 4) ELSE addr
    IN  IF a # <<>>
        THEN <<Caller(IF useTcp THEN "tcp" ELSE "udp",
                      IF ~Contains(a, <<":">>) THEN a \o S_port53 ELSE a,
                      <<>>, dialer)>>
        ELSE <<>>

\* the Callers one entry of group.DoT adds
dotCallers(entry, dialer) ==
    LET arr == Split(entry, "@")
    IN  IF Len(arr) # 2 THEN <<>>
        ELSE IF arr[1] # <<>> /\ arr[2] # <<>>
             THEN <<Caller("tls",
                           IF ~Contains(arr[1], <<":">>) THEN arr[1] \o S_port853 ELSE arr[1],
                           arr[2], dialer)>>
             ELSE <<>>

dohRegMatch_prefixOnly(addr) ==
    /\ Len(addr) >= Len(S_https)
    /\ SubSeq(addr, 1, Len(S_https)) = S_https

\* regexp `^https://.+/dns-query$` matches addr
dohRegMatch(addr) ==
    /\ Len(addr) >= Len(S_https) + 1 + Len(S_dnsquery)
    /\ SubSeq(addr, 1, Len(S_https)) = S_https
    /\ HasSuffix(addr, S_dnsquery)
    /\ \A i \in (Len(S_https) + 1)..(Len(addr) - Len(S_dnsquery)) : addr[i] # "\n"

\* the Callers one entry of group.DoH adds
dohCallers(addr, dialer) ==
    IF dohRegMatch(addr) THEN <<Caller("doh", addr, <<>>, dialer)>> ELSE <<>>

\* the Callers the entries of one list add, in order
RECURSIVE eachCallers(_, _, _, _)
eachCallers(kind, list, i, dialer) ==
    IF i > Len(list) THEN <<>>
    ELSE (CASE kind = "DNS" -> plainCallers(list[i], dialer)
            [] kind = "DoT" -> dotCallers(list[i], dialer)
            [] kind = "DoH" -> dohCallers(list[i], dialer))
         \o eachCallers(kind, list, i + 1, dialer)

\* the config.Group built from one groupStruct
buildGroup(group) ==
    LET dialer == group.Socks5
    IN  [Callers  |-> eachCallers("DNS", group.DNS, 1, dialer)
                      \o eachCallers("DoT", group.DoT, 1, dialer)
                      \o eachCallers("DoH", group.DoH, 1, dialer),
         IPSet    |-> group.IPSetName # "",
         IPSetTTL |-> IF group.IPSetName # "" /\ group.IPSetTTL > 0 THEN group.IPSetTTL ELSE 0]

\* len(c.GroupMap[name].Callers), a missing group being the zero Group
lenCallers(groupMap, name) ==
    IF name \in DOMAIN groupMap THEN Len(groupMap[name].Callers) ELSE 0

configInvalid_cleanOnly(groupMap) ==
    \/ Cardinality(DOMAIN groupMap) <= 0
    \/ lenCallers(groupMap, "clean") <= 0

\* the validity test that ends initConfig
configInvalid(groupMap) ==
    \/ Cardinality(DOMAIN groupMap) <= 0
    \/ lenCallers(groupMap, "clean") <= 0
    \/ lenCallers(groupMap, "dirty") <= 0

NoGroups == [g \in {} |-> 0]

\* a groupStruct of the configuration file
groupStruct(socks5, ipset, ttl, dns, dot, doh) ==
    [Socks5 |-> socks5, IPSetName |-> ipset, IPSetTTL |-> ttl,
     DNS |-> dns, DoT |-> dot, DoH |-> doh]

\* the lists of exactly k elements of S
ListsOf(S, k) == [1..k -> S]

\* the "clean" groups of at most n entries a configuration file may declare
CleanGroups(n) ==
    UNION { { groupStruct("", "", 0, d, t, h) :
                d \in ListsOf(DNSAddrs, k[1]), t \in ListsOf(DoTAddrs, k[2]), h \in ListsOf(DoHAddrs, k[3]) } :
            k \in {x \in (0..n) \X (0..n) \X (0..n) : x[1] + x[2] + x[3] <= n} }

\* the "dirty" groups a configuration file may declare
DirtyGroups ==
    { groupStruct("127.0.0.1:1080", "blocked", 60, <<DNS_v4>>, <<>>, <<>>),
      groupStruct("127.0.0.1:1080", "", 0, <<>>, <<DoT_plain>>, <<DoH_good>>),
      groupStruct("", "", 0, <<DNS_onlytcp>>, <<DoT_noname>>, <<DoH_http>>) }

\* tomlConfig.GroupMap of the configuration files considered
TomlConfigs ==
    { [g \in {"clean", "dirty"} |-> IF g = "clean" THEN c ELSE d] :
        c \in CleanGroups(MaxEntries),
        d \in DirtyGroups }
    \cup { [g \in {"clean"} |-> c] :
        c \in CleanGroups(1) }
    \cup { [g \in {"dirty"} |-> d] : d \in DirtyGroups }
    \cup { NoGroups }


\* initConfig, with the outcomes of reading the files and of creating the address sets
InitConfig ==
    /\ config.state = "start"
    /\ \E readOk \in BOOLEAN, ipsetOk \in BOOLEAN :
          LET groupMap == [g \in DOMAIN toml |-> buildGroup(toml[g])]
          IN  config' =
                IF ~readOk
                THEN [state |-> "fatal", GroupMap |-> NoGroups]
                ELSE IF ~ipsetOk /\ \E g \in DOMAIN toml : toml[g].IPSetName # ""
                THEN [state |-> "fatal", GroupMap |-> NoGroups]
                ELSE IF configInvalid(groupMap)
                THEN [state |-> "fatal", GroupMap |-> groupMap]
                ELSE [state |-> "returned", GroupMap |-> groupMap]
    /\ UNCHANGED <<handlerVars, toml, callerVars>>

-----------------------------------------------------------------------------
(* Outbound: the Callers *)

\* the request tasks that call Callers
Tasks == {1, 2}

\* a *dns.Msg handed to Call: nil, or a message with so many questions
Msg(isNil, questions) == [nil |-> isNil, Question |-> questions]

M_nil == Msg(TRUE, 0)
M_empty == Msg(FALSE, 0)
M_query == Msg(FALSE, 1)

A_53 == DNS_v4 \o S_port53
A_853 == DNS_v4 \o S_port853

\* the Callers called: direct and proxied, with and without a target
C_udp == Caller("udp", A_53, <<>>, "")
C_udpProxy == Caller("udp", A_53, <<>>, "D1")
C_udpNoAddr == Caller("udp", <<>>, <<>>, "D1")
C_tcpProxy == Caller("tcp", A_53, <<>>, "D1")
C_tlsProxy == Caller("tls", A_853, <<"o", "n", "e">>, "D1")
C_doh == Caller("doh", DoH_good, <<>>, "")
C_dohD1 == Caller("doh", DoH_good, <<>>, "D1")
C_dohD2 == Caller("doh", DoH_good, <<>>, "D2")
C_dohNoUrl == Caller("doh", <<>>, <<>>, "D1")

\* a Call: the Caller and the request it is given
CallOf(caller, request) == [caller |-> caller, request |-> request]

\* the Calls made on UDP, TCP and TLS Callers
PlainCalls ==
    { CallOf(C_udp, M_nil), CallOf(C_udp, M_empty), CallOf(C_udp, M_query),
      CallOf(C_udpProxy, M_query), CallOf(C_udpNoAddr, M_query),
      CallOf(C_tcpProxy, M_nil), CallOf(C_tcpProxy, M_query),
      CallOf(C_tlsProxy, M_empty), CallOf(C_tlsProxy, M_query) }

\* the Calls made on DoH Callers
DoHCalls ==
    { CallOf(C_doh, M_nil), CallOf(C_doh, M_empty), CallOf(C_doh, M_query),
      CallOf(C_dohD1, M_empty), CallOf(C_dohD1, M_query),
      CallOf(C_dohD2, M_query), CallOf(C_dohNoUrl, M_query) }

NoCaller == Caller("", <<>>, <<>>, "")

\* a task that is executing no Call
IdleTask == [pc |-> "idle", caller |-> NoCaller, conn |-> "none"]

\* one event of a Call: what task t did on which Caller; `via` is the
\* proxy an HTTP request went through or the outcome of a return
CEv(t, ev, caller, via) == [task |-> t, ev |-> ev, caller |-> caller, via |-> via]

\* the event that begins a Call on `caller` with `request`
CallEv(t, caller, request) ==
    [task |-> t, ev |-> "call", caller |-> caller, via |-> "", request |-> request]

\* the process has crashed
Crashed == \E t \in Tasks : tasks[t].pc = "panic"

\* request == nil || len(request.Question) <= 0 || address == ""
callInvalid(request, address) ==
    request.nil \/ request.Question <= 0 \/ address = <<>>

closeProxyConn_never(conn) == conn

\* call's deferred function: if proxyConn != nil { proxyConn.Close() }
closeProxyConn(conn) == IF conn = "open" THEN "closed" ELSE conn

\* call returns `result` while its proxy connection is in state conn
callReturn(t, caller, conn, result) ==
    (IF closeProxyConn(conn) = "closed" THEN <<CEv(t, "connClose", caller, "")>> ELSE <<>>)
    \o <<CEv(t, "return", caller, result)>>

\* UDPCaller.Call, TCPCaller.Call, TLSCaller.Call: call up to the dial
CallEnter(t) ==
    /\ ~Crashed
    /\ tasks[t].pc = "idle"
    /\ ncalls < MaxCalls
    /\ \E arg \in PlainCalls, ok \in BOOLEAN :
        LET c == arg.caller
            request == arg.request
        IN
          IF callInvalid(request, c.address)
          THEN /\ clog' = (clog \o <<CallEv(t, c, request)>>) \o callReturn(t, c, "none", "invalid")
               /\ tasks' = tasks
          ELSE IF c.dialer = ""
          THEN /\ clog' = (clog \o <<CallEv(t, c, request), CEv(t, "exchange", c, "")>>)
                            \o callReturn(t, c, "none", IF ok THEN "ok" ELSE "err")
               /\ tasks' = tasks
          ELSE /\ clog' = clog \o <<CallEv(t, c, request)>>
               /\ tasks' = [tasks EXCEPT ![t] = [pc |-> "dial", caller |-> c, conn |-> "none"]]
    /\ ncalls' = ncalls + 1
    /\ UNCHANGED <<handlerVars, configVars, transport>>

\* proxyConn, err = dialer.Dial("tcp", address)
Dial(t) ==
    /\ ~Crashed
    /\ tasks[t].pc = "dial"
    /\ LET c == tasks[t].caller
       IN  \E ok \in BOOLEAN :
              IF ok
              THEN /\ clog' = clog \o <<CEv(t, "dial", c, c.dialer)>>
                   /\ tasks' = [tasks EXCEPT ![t].pc = "write", ![t].conn = "open"]
              ELSE /\ clog' = (clog \o <<CEv(t, "dialFail", c, c.dialer)>>)
                                \o callReturn(t, c, tasks[t].conn, "err")
                   /\ tasks' = [tasks EXCEPT ![t] = IdleTask]
    /\ UNCHANGED <<handlerVars, configVars, transport, ncalls>>

\* conn.WriteMsg(request)
WriteMsg(t) ==
    /\ ~Crashed
    /\ tasks[t].pc = "write"
    /\ LET c == tasks[t].caller
       IN  \E ok \in BOOLEAN :
              IF ok
              THEN /\ clog' = clog \o <<CEv(t, "connWrite", c, "")>>
                   /\ tasks' = [tasks EXCEPT ![t].pc = "read"]
              ELSE /\ clog' = (clog \o <<CEv(t, "connWriteFail", c, "")>>)
                                \o callReturn(t, c, tasks[t].conn, "err")
                   /\ tasks' = [tasks EXCEPT ![t] = IdleTask]
    /\ UNCHANGED <<handlerVars, configVars, transport, ncalls>>

\* return conn.ReadMsg()
ReadMsg(t) ==
    /\ ~Crashed
    /\ tasks[t].pc = "read"
    /\ LET c == tasks[t].caller
       IN  \E ok \in BOOLEAN :
              /\ clog' = (clog \o <<CEv(t, IF ok THEN "connRead" ELSE "connReadFail", c, "")>>)
                           \o callReturn(t, c, tasks[t].conn, IF ok THEN "ok" ELSE "err")
              /\ tasks' = [tasks EXCEPT ![t] = IdleTask]
    /\ UNCHANGED <<handlerVars, configVars, transport, ncalls>>

\* DoHCaller.Call up to the request: request.Pack(), then the proxy's dial
\* function is stored in the shared client when the Caller has one
DoHCall(t) ==
    /\ ~Crashed
    /\ tasks[t].pc = "idle"
    /\ ncalls < MaxCalls
    /\ \E arg \in DoHCalls :
        LET c == arg.caller
            request == arg.request
        IN
          IF request.nil
          THEN /\ clog' = clog \o <<CallEv(t, c, request), CEv(t, "panic", c, "")>>
               /\ tasks' = [tasks EXCEPT ![t] = [pc |-> "panic", caller |-> c, conn |-> "none"]]
               /\ transport' = transport
          ELSE /\ tasks' = [tasks EXCEPT ![t] = [pc |-> "post", caller |-> c, conn |-> "none"]]
               /\ IF c.dialer # ""
                  THEN /\ transport' = c.dialer
                       /\ clog' = clog \o <<CallEv(t, c, request), CEv(t, "setTransport", c, c.dialer)>>
                  ELSE /\ transport' = transport
                       /\ clog' = clog \o <<CallEv(t, c, request)>>
    /\ ncalls' = ncalls + 1
    /\ UNCHANGED <<handlerVars, configVars>>

postVia_own(shared, caller) == caller.dialer

\* httpClient.Post sends through httpClient.Transport
postVia(shared, caller) == shared

\* resp, err = httpClient.Post(caller.Url, contentType, payload)
Post(t) ==
    /\ ~Crashed
    /\ tasks[t].pc = "post"
    /\ LET c == tasks[t].caller
           via == postVia(transport, c)
       IN  \E ok \in BOOLEAN :
              IF c.address = <<>>
              THEN /\ clog' = clog \o <<CEv(t, "postFail", c, via), CEv(t, "return", c, "err")>>
                   /\ tasks' = [tasks EXCEPT ![t] = IdleTask]
              ELSE IF ok
              THEN /\ clog' = clog \o <<CEv(t, "post", c, via)>>
                   /\ tasks' = [tasks EXCEPT ![t].pc = "body"]
              ELSE /\ clog' = clog \o <<CEv(t, "post", c, via), CEv(t, "return", c, "err")>>
                   /\ tasks' = [tasks EXCEPT ![t] = IdleTask]
    /\ UNCHANGED <<handlerVars, configVars, transport, ncalls>>

\* ioutil.ReadAll(resp.Body), msg.Unpack(body), the deferred resp.Body.Close()
ReadBody(t) ==
    /\ ~Crashed
    /\ tasks[t].pc = "body"
    /\ LET c == tasks[t].caller
       IN  \E ok \in BOOLEAN :
              clog' = clog \o <<CEv(t, "bodyClose", c, ""),
                                CEv(t, "return", c, IF ok THEN "ok" ELSE "err")>>
    /\ tasks' = [tasks EXCEPT ![t] = IdleTask]
    /\ UNCHANGED <<handlerVars, configVars, transport, ncalls>>

-----------------------------------------------------------------------------
(* Specifications *)

InitHandler ==
    /\ pc = "idle"
    /\ req = NoReq
    /\ r = Nil
    /\ idx = 1
    /\ groupName = ""
    /\ reason = Reason("", <<>>)
    /\ panicking = FALSE
    /\ log = <<>>
    /\ cache = [k \in Requests |-> Absent]
    /\ served = 0
    /\ prev = [req |-> NoReq, routed |-> FALSE, called |-> FALSE, reply |-> Nil]
    /\ results = [d \in Names |-> {}]

\* no configuration is being loaded
InitNoConfig ==
    /\ toml = NoGroups
    /\ config = [state |-> "none", GroupMap |-> NoGroups]

\* no Call has been made
InitNoCalls ==
    /\ tasks = [t \in Tasks |-> IdleTask]
    /\ transport = ""
    /\ clog = <<>>
    /\ ncalls = 0

Init == InitHandler /\ InitNoConfig /\ InitNoCalls

Next ==
    \/ \E request \in Requests : Serve(request)
    \/ HostsStep
    \/ CacheLookup
    \/ Route
    \/ Dispatch
    \/ IPSetWrite
    \/ Deferred

\* the server handling requests one after another
Spec == Init /\ [][Next]_vars

\* the process starts: initConfig is about to read some configuration file
InitStartup ==
    /\ InitHandler
    /\ toml \in TomlConfigs
    /\ config = [state |-> "start", GroupMap |-> NoGroups]
    /\ InitNoCalls

NextConfig == InitConfig

\* startup on any of the configuration files
SpecConfig == InitStartup /\ [][NextConfig]_vars

NextCallers ==
    \E t \in Tasks :
        \/ CallEnter(t)
        \/ Dial(t)
        \/ WriteMsg(t)
        \/ ReadMsg(t)
        \/ DoHCall(t)
        \/ Post(t)
        \/ ReadBody(t)

\* two request tasks calling Callers, their steps interleaved
SpecCallers == Init /\ [][NextCallers]_vars

NextDoH == \E t \in Tasks : DoHCall(t) \/ Post(t) \/ ReadBody(t)

\* two request tasks calling DoH Callers, their steps interleaved
SpecDoH == Init /\ [][NextDoH]_vars

\* the server handling requests, or else request tasks calling the UDP, TCP
\* and TLS Callers
NextProxy ==
    \/ \E request \in Requests : ncalls = 0 /\ Serve(request)
    \/ HostsStep
    \/ CacheLookup
    \/ Route
    \/ Dispatch
    \/ IPSetWrite
    \/ Deferred
    \/ \E t \in Tasks : served = 0 /\ pc = "idle" /\ CallEnter(t)
    \/ \E t \in Tasks : Dial(t) \/ WriteMsg(t) \/ ReadMsg(t)

SpecProxy == Init /\ [][NextProxy]_vars

NextRouter == \E domain \in Names : RouterCall(domain)

\* getGroupName called on any domains, any number of times
SpecRouter == Init /\ [][NextRouter]_vars

-----------------------------------------------------------------------------
(* Properties *)

\* the events of kind ev, in order
Sel(lg, ev) == SelectSeq(lg, LAMBDA e : e.ev = ev)

\* the positions of the events of kind ev
Pos(lg, ev) == {i \in 1..Len(lg) : lg[i].ev = ev}

\* the handler has ended: returned, unwound by a panic, or the process has exited
Ended == pc \in {"done", "panic", "exit"}

\* every upstream of the routed group was invoked and every one returned nil
Exhausted ==
    /\ groupName \in DOMAIN Groups
    /\ Len(Sel(log, "queryDnsReturn")) = Len(Groups[groupName].DNS)
    /\ Len(Groups[groupName].DNS) > 0
    /\ \A i \in Pos(log, "queryDnsReturn") : log[i].msg = Nil

\* C1: the upstreams of the routed group are invoked in list order, one at a
\* time, each at most once; no upstream is invoked after one has returned a
\* non-nil response (with or without an error); and the reply written is that
\* upstream's response.
C1_DispatchOrder ==
    LET calls == Sel(log, "queryDns")
        rets  == Sel(log, "queryDnsReturn")
    IN  /\ \A k \in 1..Len(calls) :
              /\ calls[k].n = k
              /\ calls[k].arg = Groups[groupName].DNS[k]
        /\ Len(rets) = Len(calls)
        /\ \A p, q \in Pos(log, "queryDns") :
              p < q => \E m \in Pos(log, "queryDnsReturn") : p < m /\ m < q
        /\ \A k \in 1..Len(rets) : rets[k].msg # Nil => k = Len(calls)
        /\ Cardinality(Pos(log, "write")) <= 1
        /\ (Len(rets) > 0 /\ rets[Len(rets)].msg # Nil) =>
              /\ rets[Len(rets)].msg.from = calls[Len(calls)].arg
              /\ pc \in {"done", "panic"} => Reply(log) = rets[Len(rets)].msg
              /\ \A i \in Pos(log, "write") : log[i].msg = rets[Len(rets)].msg

\* C1 witness: the first upstream failed, the second returned a response
\* together with an error, and that response was the reply
C1_Witness ==
    LET rets == Sel(log, "queryDnsReturn")
    IN  /\ pc = "done"
        /\ Len(rets) = 2
        /\ rets[1].msg = Nil
        /\ rets[2].msg # Nil
        /\ rets[2].arg = "err"
        /\ Reply(log) = rets[2].msg

\* C2: when every upstream of the routed group returns nil, no reply is
\* written, the handler returns normally and the process does not crash.
C2_ExhaustionReturnsNormally ==
    Exhausted =>
        /\ ~HasEv(log, "write")
        /\ ~HasEv(log, "panic")
        /\ pc # "panic"

\* C3 (as claimed): after a call that reached dispatch (invoked an upstream),
\* the next call for the same (question, extra) replies with the cached
\* response and invokes no upstream.
C3_RoundTripAfterAnyDispatch ==
    (pc \in {"done", "panic"} /\ served > 1 /\ prev.req = req /\ prev.called) =>
        /\ ~HasEv(log, "queryDns")
        /\ HasEv(log, "cacheGet")
        /\ Reply(log) # Nil
        /\ \A i \in Pos(log, "cacheGet") : Reply(log) = log[i].msg

\* C3 (amended): after a call whose dispatch produced a response, the next
\* call for the same (question, extra) replies with that response, taken from
\* the cache, and invokes no upstream.
C3_RoundTripAfterAnswer ==
    (pc \in {"done", "panic"} /\ served > 1 /\ prev.req = req /\ prev.called
        /\ prev.reply # Nil) =>
        /\ ~HasEv(log, "queryDns")
        /\ ~HasEv(log, "route")
        /\ HasEv(log, "cacheGet")
        /\ Reply(log) = prev.reply
        /\ \A i \in Pos(log, "cacheGet") : Reply(log) = log[i].msg

\* C3 witness: a repeated query answered from the cache
C3_Witness ==
    /\ pc = "done"
    /\ served > 1
    /\ prev.req = req
    /\ prev.called
    /\ prev.reply # Nil
    /\ Reply(log) = prev.reply
    /\ HasEv(log, "cacheGet")

\* C4: getGroupName returns the same result on every call for a domain.
C4_RoutingDeterministic ==
    \A d \in Names : Cardinality(results[d]) <= 1

\* the suffixes in the order the configuration lists them
ConfiguredOrder == [i \in 1..Len(SuffixTable) |-> SuffixTable[i].suffix]

\* C5: a domain ending with a configured suffix is routed by the first such
\* suffix in configured order, and the classifier is not consulted.
C5_FirstConfiguredSuffix ==
    \A d \in Names : \A res \in results[d] :
        LET i == FirstMatch(d, ConfiguredOrder, 1)
        IN  i > 0 =>
              /\ res.group = SuffixTable[i].group
              /\ res.reason = Reason("suffix", SuffixTable[i].suffix)
              /\ res.isBlockedCalls = 0

\* C6: a domain ending with no configured suffix makes getGroupName consult
\* the classifier exactly once; matched and blocked gives "dirty", matched and
\* not blocked gives "clean", no match gives ("clean", "default").
C6_ClassifierStage ==
    \A d \in Names : \A res \in results[d] :
        (\A s \in Suffixes : ~HasSuffix(d, s)) =>
            /\ res.isBlockedCalls = 1
            /\ (IsBlocked(d).ok /\ IsBlocked(d).blocked) => res.group = "dirty"
            /\ (IsBlocked(d).ok /\ ~IsBlocked(d).blocked) => res.group = "clean"
            /\ ~IsBlocked(d).ok =>
                  res.group = "clean" /\ res.reason = Reason("default", <<>>)

\* C6 witness: a blocked, an unblocked and an unmatched domain have been routed
C6_Witness ==
    /\ Routing("dirty", Reason("GFWList", <<>>), 1) \in results[N_d]
    /\ Routing("clean", Reason("GFWList", <<>>), 1) \in results[N_f]
    /\ Routing("clean", Reason("default", <<>>), 1) \in results[N_h]

\* C7 (as claimed): every request that reaches routing has a cache entry
\* written for its key before the handler ends, answer or not, also when the
\* routed group has no upstream or is not configured; when an answer was
\* produced the entry left is that answer.
C7_CacheWrittenAfterRoute ==
    (pc \in {"done", "panic"} /\ HasEv(log, "route")) =>
        /\ HasEv(log, "cacheSet")
        /\ cache[CacheKey(req)] # Absent
        /\ Reply(log) # Nil => cache[CacheKey(req)] = Reply(log)

\* C7 (amended): a request that reaches routing has a cache entry written for
\* its key exactly when its routed group is configured and has at least one
\* upstream: one write per upstream invoked, answer or not, the last one
\* being the entry left in the cache; when an answer was produced that entry
\* is the answer. With no upstream or an unconfigured group nothing is written.
C7_CacheWrittenPerUpstream ==
    LET sets == Sel(log, "cacheSet")
        configured == groupName \in DOMAIN Groups /\ Len(Groups[groupName].DNS) > 0
    IN  /\ Len(sets) = Len(Sel(log, "queryDns"))
        /\ Len(sets) > 0 => cache[CacheKey(req)] = sets[Len(sets)].msg
        /\ (pc \in {"done", "panic"} /\ HasEv(log, "route")) =>
              /\ Len(sets) > 0 <=> configured
              /\ Reply(log) # Nil => cache[CacheKey(req)] = Reply(log)

\* C7 witness: every upstream failed, and the entry with no answer was written
C7_Witness ==
    /\ pc = "done"
    /\ Exhausted
    /\ Len(Sel(log, "cacheSet")) = 2
    /\ Reply(log) = Nil
    /\ cache[CacheKey(req)] = Nil

\* C8: a query name with more than one occurrence of the loop marker takes the
\* fatal path before anything else happens and nothing is replied; a name with
\* zero or one occurrence never takes it.
C8_LoopGuard ==
    pc # "idle" =>
        IF Count(req.name, Marker) > 1
        THEN /\ pc = "exit"
             /\ log = <<Ev("fatal", "", 0, Nil)>>
             /\ cache[CacheKey(req)] = Absent
        ELSE /\ pc # "exit"
             /\ ~HasEv(log, "fatal")

\* C8 witness: a name with one marker was dispatched, then a name with two
\* markers ended the process
C8_Witness ==
    /\ pc = "exit"
    /\ req.name = N_two
    /\ prev.req.name = N_one
    /\ prev.called

\* the writer is closed once, after the reply if there is one
ClosedOnce ==
    /\ Cardinality(Pos(log, "close")) = 1
    /\ Cardinality(Pos(log, "write")) <= 1
    /\ \A w \in Pos(log, "write") : \A c \in Pos(log, "close") : w < c

\* C9 (as claimed): on every exit path, the anti-recursion path included, the
\* response writer is closed exactly once, after the reply if one is written.
C9_ClosedOnEveryExit ==
    Ended => ClosedOnce

\* C9 (amended): on every exit path on which the handler returns or unwinds
\* (hosts shortcut, cache hit, answer, no answer, unknown group, nil
\* dereference) the writer is closed exactly once, after the reply if one is
\* written, and not before the handler ends; on the anti-recursion path the
\* process exits without closing it.
C9_ClosedOnReturn ==
    /\ pc \in {"done", "panic"} => ClosedOnce
    /\ pc \notin {"done", "panic"} => ~HasEv(log, "close") /\ ~HasEv(log, "write")

\* C9 witness: every upstream failed, nothing was replied, the writer was closed
C9_Witness ==
    /\ pc = "done"
    /\ Exhausted
    /\ ~HasEv(log, "write")
    /\ Cardinality(Pos(log, "close")) = 1

\* the hosts sources consulted so far were consulted in priority order, each
\* with the stripped name first and the name itself after a miss
HostsInOrder ==
    LET gen == Sel(log, "genRecord")
        readers == {gen[i].n : i \in 1..Len(gen)}
    IN  /\ \A i, j \in 1..Len(gen) : i < j =>
              \/ gen[i].n < gen[j].n
              \/ gen[i].n = gen[j].n /\ gen[i].arg = "stripped" /\ gen[j].arg = "full"
        /\ \A n \in readers :
              /\ \A m \in 1..n : m \in readers
              /\ \E i \in 1..Len(gen) : gen[i].n = n /\ gen[i].arg = "stripped"
              /\ (\E i \in 1..Len(gen) : gen[i].n = n /\ gen[i].arg = "full")
                    <=> GenRecord(hostsReaders[n], StripLast(req.name), req.qtype) = ""

\* the record the hosts sources hold for the request, by priority ("": none)
RECURSIVE FirstRecord(_, _)
FirstRecord(request, n) ==
    IF n > Len(hostsReaders) THEN ""
    ELSE LET a == GenRecord(hostsReaders[n], StripLast(request.name), request.qtype)
             b == GenRecord(hostsReaders[n], request.name, request.qtype)
         IN  IF a # "" THEN a ELSE IF b # "" THEN b ELSE FirstRecord(request, n + 1)

\* after a hosts hit nothing else is done for the request
NothingAfterHosts ==
    /\ \A e \in {"cacheGet", "route", "isBlocked", "queryDns", "cacheSet", "ipsetAdd"} :
          ~HasEv(log, e)
    /\ \A p \in Pos(log, "newRR") : \A g \in Pos(log, "genRecord") : g < p

\* C10 (as claimed): for an A or AAAA request the hosts sources are consulted
\* in priority order; the first non-empty record is returned as the answer and
\* nothing else is consulted or written; other query types consult no source.
C10_HostsShortcutAlwaysAnswers ==
    /\ HostsInOrder
    /\ ~(req.qtype \in {"A", "AAAA"}) => ~HasEv(log, "genRecord")
    /\ HasEv(log, "newRR") =>
          /\ NothingAfterHosts
          /\ pc \in {"done", "panic"} =>
                /\ Reply(log) # Nil
                /\ Reply(log).answer = <<NewRR(FirstRecord(req, 1)).rr>>

\* C10 (amended): for an A or AAAA request that passes the loop guard the
\* hosts sources are consulted in priority order; at the first non-empty
\* record no later source, cache, router, upstream or address set is used,
\* and the record is the answer when it parses, while no reply is written
\* when it does not; other query types consult no source.
C10_HostsShortcut ==
    /\ HostsInOrder
    /\ ~(req.qtype \in {"A", "AAAA"}) => ~HasEv(log, "genRecord")
    /\ (req.qtype \in {"A", "AAAA"} /\ pc \in {"done", "panic"}) =>
          /\ HasEv(log, "genRecord")
          /\ HasEv(log, "newRR") <=> FirstRecord(req, 1) # ""
    /\ HasEv(log, "newRR") =>
          /\ NothingAfterHosts
          /\ \A p \in Pos(log, "newRR") : log[p].arg = FirstRecord(req, 1)
          /\ pc \in {"done", "panic"} =>
                IF NewRR(FirstRecord(req, 1)).err
                THEN Reply(log) = Nil
                ELSE Reply(log) = [from |-> "hosts", answer |-> <<NewRR(FirstRecord(req, 1)).rr>>]

\* C10 witness: the first source missed, the second held a record under the
\* unstripped name, and that record was the reply
C10_Witness ==
    /\ pc = "done"
    /\ req.name = N_k
    /\ Len(Sel(log, "genRecord")) = 4
    /\ Reply(log) = [from |-> "hosts", answer |-> <<RR("A", "10.0.0.3")>>]

\* the IPv4 address records of an answer section, in order
ARecords(answer) == SelectSeq(answer, LAMBDA rr : rr.type = "A")

\* the routed group declares an address-set target
HasIPSet == groupName \in DOMAIN Groups /\ Groups[groupName].IPSet

\* C12: when the routed group declares an address set and dispatch produced a
\* response, exactly the A records of the answer are added, in order, with the
\* group's TTL, a failed Add stopping neither the later Adds nor the reply;
\* without an address-set target Add is never called.
C12_AddressSetWriteBack ==
    LET adds == Sel(log, "ipsetAdd")
    IN  /\ ~HasIPSet => adds = <<>>
        /\ \A e \in Pos(log, "ipsetAddError") :
              e > 1 /\ log[e - 1].ev = "ipsetAdd" /\ log[e - 1].arg = log[e].arg
        /\ (HasIPSet /\ r # Nil /\ pc \in {"defer", "done", "panic"}) =>
              /\ Len(adds) = Len(ARecords(r.answer))
              /\ \A k \in 1..Len(adds) :
                    /\ adds[k].arg = ARecords(r.answer)[k].data
                    /\ adds[k].n = Groups[groupName].IPSetTTL
              /\ pc # "panic"
              /\ pc = "done" => Reply(log) = r

\* C12 witness: the first of two Adds failed, the second was still made and
\* the reply was written
C12_Witness ==
    LET adds == Sel(log, "ipsetAdd")
    IN  /\ pc = "done"
        /\ HasIPSet
        /\ Len(adds) = 2
        /\ \E e \in Pos(log, "ipsetAddError") :
              log[e].arg = adds[1].arg /\ \E a \in Pos(log, "ipsetAdd") : a > e
        /\ Reply(log) = r
        /\ Len(r.answer) = 4

\* no hosts source holds a record for the request, or its type is not A/AAAA
NotInHosts == ~(req.qtype \in {"A", "AAAA"} /\ FirstRecord(req, 1) # "")

\* C17: a request for which the hosts sources hold nothing has the cache
\* looked up by (question, extra) before any routing; on a hit the reply is
\* the cached response and the router, the upstreams, the cache write and the
\* address set are not used; for A/AAAA every hosts source is consulted before
\* the cache lookup, hit or miss.
C17_CacheHitShortCircuit ==
    LET gets == Pos(log, "cacheGet")
    IN  /\ Cardinality(gets) <= 1
        /\ \A p \in Pos(log, "route") : \E c \in gets : c < p
        /\ (pc \in {"done", "panic"} /\ NotInHosts) => gets # {}
        /\ \A c \in gets :
              /\ log[c].msg # Nil =>
                    /\ log[c].msg = cache[CacheKey(req)]
                    /\ \A e \in {"route", "isBlocked", "queryDns", "cacheSet", "ipsetAdd"} :
                          ~HasEv(log, e)
                    /\ pc = "defer" \/ pc = "done"
                    /\ pc = "done" => Reply(log) = log[c].msg
              /\ req.qtype \in {"A", "AAAA"} =>
                    /\ \A g \in Pos(log, "genRecord") : g < c
                    /\ \A n \in 1..Len(hostsReaders) :
                          \E g \in Pos(log, "genRecord") : log[g].n = n

\* C17 witness: an A request, not in any hosts source, answered from the cache
C17_Witness ==
    /\ pc = "done"
    /\ req.qtype = "A"
    /\ Len(Sel(log, "genRecord")) = 4
    /\ \E c \in Pos(log, "cacheGet") :
          log[c].msg # Nil /\ Reply(log) = log[c].msg
    /\ ~HasEv(log, "route")

\* the Callers of the given kinds, in order
OfKind(callers, kinds) == SelectSeq(callers, LAMBDA c : c.kind \in kinds)

\* a host:port address: one colon with a port after it, or a bracketed IPv6
\* host followed by a colon and a port
HasPort(a) ==
    IF a # <<>> /\ a[1] = "["
    THEN \E i \in 2..(Len(a) - 2) : a[i] = "]" /\ a[i + 1] = ":"
    ELSE Count(a, <<":">>) = 1 /\ a[Len(a)] # ":"

\* what the claim expects of one plain-DNS entry
RECURSIVE expectedPlain(_, _, _)
expectedPlain(list, i, dialer) ==
    IF i > Len(list) THEN <<>>
    ELSE LET tcp == HasSuffix(list[i], S_tcp)
             target == IF tcp THEN SubSeq(list[i], 1, Len(list[i]) - Len(S_tcp)) ELSE list[i]
         IN  (IF target = <<>> THEN <<>>
              ELSE <<Caller(IF tcp THEN "tcp" ELSE "udp",
                            IF HasPort(target) THEN target ELSE target \o S_port53,
                            <<>>, dialer)>>)
             \o expectedPlain(list, i + 1, dialer)

\* what the claim expects of one DoT entry
RECURSIVE expectedDoT(_, _, _)
expectedDoT(list, i, dialer) ==
    IF i > Len(list) THEN <<>>
    ELSE LET ats == {k \in 1..Len(list[i]) : list[i][k] = "@"}
             at == CHOOSE k \in ats : TRUE
             addr == SubSeq(list[i], 1, at - 1)
             name == SubSeq(list[i], at + 1, Len(list[i]))
         IN  (IF Cardinality(ats) # 1 THEN <<>>
              ELSE IF addr = <<>> \/ name = <<>> THEN <<>>
              ELSE <<Caller("tls", IF HasPort(addr) THEN addr ELSE addr \o S_port853,
                            name, dialer)>>)
             \o expectedDoT(list, i + 1, dialer)

\* C13: every plain-DNS entry gives a TCP Caller when it ends with "/tcp" and
\* a UDP Caller otherwise, on the entry without "/tcp", with ":53" appended
\* when it has no port; every DoT entry addr@serverName gives a TLS Caller
\* with ":853" appended when addr has no port; an empty address, an empty
\* server name or an entry not of the form addr@serverName gives no Caller.
C13_AddressNormalization ==
    \A g \in DOMAIN config.GroupMap :
        /\ OfKind(config.GroupMap[g].Callers, {"udp", "tcp"})
              = expectedPlain(toml[g].DNS, 1, toml[g].Socks5)
        /\ OfKind(config.GroupMap[g].Callers, {"tls"})
              = expectedDoT(toml[g].DoT, 1, toml[g].Socks5)

\* addr is https://, one or more characters other than a newline, /dns-query
MatchesDoHPattern(addr) ==
    \E n \in 1..(Len(addr) - Len(S_https) - Len(S_dnsquery)) :
        /\ addr = (S_https \o SubSeq(addr, Len(S_https) + 1, Len(S_https) + n)) \o S_dnsquery
        /\ \A k \in (Len(S_https) + 1)..(Len(S_https) + n) : addr[k] # "\n"

\* C14: the DoH Callers of every group are exactly the configured DoH
\* addresses that match ^https://.+/dns-query$, in configured order.
C14_DoHValidation ==
    \A g \in DOMAIN config.GroupMap :
        LET doh == OfKind(config.GroupMap[g].Callers, {"doh"})
            good == SelectSeq(toml[g].DoH, MatchesDoHPattern)
        IN  /\ Len(doh) = Len(good)
            /\ \A k \in 1..Len(doh) :
                  doh[k] = Caller("doh", good[k], <<>>, toml[g].Socks5)

\* C14 witness: of two configured DoH addresses the one that continues after
\* /dns-query was dropped and the other became the group's Caller
C14_Witness ==
    /\ config.state = "returned"
    /\ toml["clean"].DoH = <<DoH_tail, DoH_good>>
    /\ config.GroupMap["clean"].Callers = <<Caller("doh", DoH_good, <<>>, "")>>

\* the entries of a configured group that are valid: a plain address that is
\* not empty once "/tcp" is removed, a DoT entry addr@serverName with both
\* parts non-empty, a DoH address matching the pattern
ValidEntries(group) ==
    Cardinality({i \in 1..Len(group.DNS) : group.DNS[i] \notin {<<>>, S_tcp}})
    + Cardinality({i \in 1..Len(group.DoT) :
          /\ Count(group.DoT[i], <<"@">>) = 1
          /\ group.DoT[i][1] # "@"
          /\ group.DoT[i][Len(group.DoT[i])] # "@"})
    + Cardinality({i \in 1..Len(group.DoH) : MatchesDoHPattern(group.DoH[i])})

\* both default groups are configured with at least one valid entry
DefaultsUsable ==
    \A g \in {"clean", "dirty"} : g \in DOMAIN toml /\ ValidEntries(toml[g]) >= 1

\* C18: initConfig returns only if, invalid entries left out, the groups
\* "clean" and "dirty" both exist with at least one Caller each, and is fatal
\* otherwise; so a domain matching no suffix is routed to an existing group
\* with a Caller.
C18_DefaultGroups ==
    /\ config.state = "returned" =>
          /\ DefaultsUsable
          /\ \A g \in {"clean", "dirty"} :
                g \in DOMAIN config.GroupMap /\ Len(config.GroupMap[g].Callers) >= 1
          /\ \A d \in Names : (\A sfx \in Suffixes : ~HasSuffix(d, sfx)) =>
                /\ classify(d).group \in DOMAIN config.GroupMap
                /\ Len(config.GroupMap[classify(d).group].Callers) >= 1
    /\ (config.state \in {"returned", "fatal"} /\ ~DefaultsUsable) => config.state = "fatal"

\* C18 witness: "dirty" was configured with entries, none of them valid, and
\* startup was fatal although "clean" had a Caller
C18_Witness ==
    /\ config.state = "fatal"
    /\ DOMAIN config.GroupMap = {"clean", "dirty"}
    /\ Len(toml["dirty"].DNS) + Len(toml["dirty"].DoT) + Len(toml["dirty"].DoH) = 3
    /\ Len(config.GroupMap["dirty"].Callers) = 0
    /\ Len(config.GroupMap["clean"].Callers) = 2

\* the events of task t after position k of the Calls' log
TaskEvents(t, k) == SelectSeq(SubSeq(clog, k + 1, Len(clog)), LAMBDA e : e.task = t)

\* s up to its first event of one of the kinds `last`, that event included
UpTo(s, last) ==
    LET ends == {j \in 1..Len(s) : s[j].ev \in last}
    IN  IF ends = {} THEN s
        ELSE SubSeq(s, 1, CHOOSE j \in ends : \A i \in ends : j <= i)

\* the events of the Call begun at position k
CallEvents(k) == UpTo(TaskEvents(clog[k].task, k), {"return", "panic"})

\* how many events of s are of the kinds evs
Num(s, evs) == Len(SelectSeq(s, LAMBDA e : e.ev \in evs))

\* the Call begun at position k was given an invalid request or target
InvalidCall(k) ==
    \/ clog[k].request.nil
    \/ clog[k].request.Question = 0
    \/ clog[k].caller.address = <<>>

\* C11: a Call on a UDP, TCP, TLS or DoH Caller with a nil request, a request
\* without questions or an empty target returns the invalid-request error at
\* once: nothing is dialed, written, read or posted, and nothing crashes.
C11_InvalidRequestRejected ==
    \A k \in 1..Len(clog) :
        (clog[k].ev = "call" /\ InvalidCall(k)) =>
            CallEvents(k) \in {<<>>, <<CEv(clog[k].task, "return", clog[k].caller, "invalid")>>}

\* the events s of one call keep the proxy connection's discipline: at most
\* one dial, then at most one write, then at most one read, a close only of
\* a dialed connection, and, once the call is over, one close per dial
ProxyDiscipline(s, over) ==
    /\ Num(s, {"dial", "dialFail"}) <= 1
    /\ Num(s, {"connWrite", "connWriteFail"}) <= 1
    /\ Num(s, {"connRead", "connReadFail"}) <= 1
    /\ \A i \in 1..Len(s) :
          /\ s[i].ev \in {"connWrite", "connWriteFail", "connClose"} =>
                \E j \in 1..(i - 1) : s[j].ev = "dial"
          /\ s[i].ev \in {"connRead", "connReadFail"} =>
                \E j \in 1..(i - 1) : s[j].ev = "connWrite"
          /\ s[i].ev = "connClose" =>
                \A j \in 1..Len(s) :
                    s[j].ev \in {"dial", "connWrite", "connWriteFail", "connRead", "connReadFail"}
                        => j < i
    /\ Num(s, {"connClose"}) <= Num(s, {"dial"})
    /\ over => Num(s, {"connClose"}) = Num(s, {"dial"})

\* the server is an upstream of a group that has a proxy dialer
Proxied(server) ==
    \E g \in DOMAIN Groups :
        Groups[g].Dialer /\ \E i \in 1..Len(Groups[g].DNS) : Groups[g].DNS[i] = server

\* C15: every UDP, TCP or TLS Call and every queryDns call with a proxy
\* dialer dials one connection through the proxy, writes at most once and
\* then reads at most once on it, and has closed it when it returns, on
\* every path; no connection stays open after the call.
C15_ProxyConnRelease ==
    /\ \A k \in 1..Len(clog) :
          (clog[k].ev = "call" /\ clog[k].caller.kind \in {"udp", "tcp", "tls"}) =>
              LET s == CallEvents(k)
                  over == s # <<>> /\ s[Len(s)].ev = "return"
              IN  /\ ProxyDiscipline(s, over)
                  /\ (over /\ clog[k].caller.dialer # "" /\ ~InvalidCall(k)) =>
                        Num(s, {"dial", "dialFail"}) = 1
                  /\ (clog[k].caller.dialer = "" \/ InvalidCall(k)) =>
                        Num(s, {"dial", "dialFail"}) = 0
    /\ \A k \in 1..Len(log) :
          log[k].ev = "queryDns" =>
              LET s == UpTo(SubSeq(log, k + 1, Len(log)), {"queryDnsReturn"})
                  over == s # <<>> /\ s[Len(s)].ev = "queryDnsReturn"
              IN  /\ over
                  /\ ProxyDiscipline(s, over)
                  /\ Num(s, {"dial", "dialFail"}) = (IF Proxied(log[k].arg) THEN 1 ELSE 0)

\* C15 witness: a Call through a proxy dialed, failed to write, closed the
\* connection and returned the error
C15_Witness ==
    \E k \in 1..Len(clog) :
        /\ clog[k].ev = "call"
        /\ clog[k].caller.kind = "tls"
        /\ LET s == CallEvents(k)
           IN  /\ Len(s) = 4
               /\ s[1].ev = "dial"
               /\ s[2].ev = "connWriteFail"
               /\ s[3].ev = "connClose"
               /\ s[4] = CEv(clog[k].task, "return", clog[k].caller, "err")

\* the proxy stored in the shared client before position k: that of the last
\* setTransport, "" when there is none
LastSet(k) ==
    LET sets == {j \in 1..(k - 1) : clog[j].ev = "setTransport"}
    IN  IF sets = {} THEN ""
        ELSE clog[CHOOSE j \in sets : \A i \in sets : i <= j].via

\* C16: the HTTP client is shared: every POST goes through the proxy that
\* was stored last, by whichever Caller; so with two DoH Callers with
\* proxies D1 and D2 called concurrently, caller 1's POST can go through D2.
C16_SharedTransport ==
    \A k \in 1..Len(clog) :
        clog[k].ev \in {"post", "postFail"} => clog[k].via = LastSet(k)

\* C16 witness: task 1 stored D1, task 2 stored D2, then task 1's POST of
\* that same Call went through D2
C16_Witness ==
    \E i, j, k \in 1..Len(clog) :
        /\ i < j /\ j < k
        /\ clog[i].ev = "setTransport" /\ clog[i].task = 1 /\ clog[i].caller.dialer = "D1"
        /\ clog[j].ev = "setTransport" /\ clog[j].task = 2 /\ clog[j].caller.dialer = "D2"
        /\ clog[k].ev = "post" /\ clog[k].task = 1 /\ clog[k].caller.dialer = "D1"
        /\ clog[k].via = "D2"
        /\ \A m \in (i + 1)..(k - 1) : clog[m].task = 1 => clog[m].ev \notin {"call", "return"}

\* no Call began while a Call of another task was in progress
Sequential ==
    \A i, k \in 1..Len(clog) :
        (i < k /\ clog[i].ev = "call" /\ clog[k].ev = "call" /\ clog[i].task # clog[k].task) =>
            \E j \in (i + 1)..(k - 1) :
                clog[j].task = clog[i].task /\ clog[j].ev \in {"return", "panic"}

\* C19: when Calls are made one after another, every DoH Caller's POST goes
\* through its own Dialer, directly when it has none, whatever Calls were
\* made before.
C19_CallerIndependence ==
    Sequential =>
        \A k \in 1..Len(clog) :
            clog[k].ev = "post" => clog[k].via = clog[k].caller.dialer

====
